---- MODULE Spec2Model ----
(***************************************************************************)
(* Model of nmimgr.c (NMI Manager kernel module), build for kernels 3.5+:  *)
(* the two event lists, their parsing by get_options(), the NMI handler,   *)
(* and the registration / unregistration of the handler on the three NMI   *)
(* types.                                                                  *)
(***************************************************************************)
EXTENDS Integers, Sequences, FiniteSets, TLC

VARIABLES
    events_panic,        \* char *events_panic   (module parameter)
    events_ignore,       \* char *events_ignore  (module parameter)
    events_panic_list,   \* int events_panic_list[NMIMGR_NBMAX]
    events_ignore_list,  \* int events_ignore_list[NMIMGR_NBMAX]
    pc,                  \* position of the module's life cycle
    i,                   \* loop variable of nmimgr_register / nmimgr_unregister
    ret,                 \* nmimgr_register's ret / init_module's err
    bound,               \* NMI types the host currently has our handler on
    calls,               \* host calls made so far: <<op, type, result>>
    setup_ret,           \* return values of the two setup calls (-1: not called)
    init_ret,            \* return value of init_module
    nmi,                 \* the NMI being handled: type, reason, outcome, log
    hnd,                 \* per context, a __nmimgr_handle invocation in progress
    cmdline              \* values of the two __setup options (NULL: not given)

vars == <<events_panic, events_ignore, events_panic_list, events_ignore_list,
          pc, i, ret, bound, calls, setup_ret, init_ret, nmi, hnd, cmdline>>

----------------------------------------------------------------------------
(* Program constants *)

NMIMGR_NBMAX == 256

\* enum { NMI_LOCAL = 0, NMI_UNKNOWN, NMI_SERR, NMI_IO_CHECK, NMI_MAX }
NMI_LOCAL    == 0
NMI_UNKNOWN  == 1
NMI_SERR     == 2
NMI_IO_CHECK == 3
NMI_MAX      == 4

\* unsigned char reason
Reasons == 0..255

----------------------------------------------------------------------------
(* C strings: a pointer is NULL or a sequence of characters *)

NULL == [null |-> TRUE, chars |-> <<>>]
Str(s) == [null |-> FALSE, chars |-> s]

S_example == <<"0",",","1",",","2",",","5","-","1","2",",","1","3",",","2","5","5">>
S_99      == <<"9","9">>
S_5abc    == <<"5",",","a","b","c">>
S_rev     == <<"7","-","3">>
S_full    == <<"1","-","2","5","5">>
S_0       == <<"0">>
S_over    == <<"3","-","3","0","0">>
S_567     == <<"5",",","6",",","7">>

----------------------------------------------------------------------------
(* get_options() of the kernel's lib/cmdline.c, as called at nmimgr.c:312   *)
(* and :330, with its helpers.  A position p in a string s is an index      *)
(* 1..Len(s)+1; Len(s)+1 is the terminating NUL.  get_range is the one that *)
(* takes the number n of slots left and never writes past them.             *)

\* The({e : x \in {v}}) is e with the local x assigned v, v computed once
The(S) == CHOOSE v \in S : TRUE

Ch(s, p) == IF p >= 1 /\ p <= Len(s) THEN s[p] ELSE ""

XDigits == <<"0","1","2","3","4","5","6","7","8","9","a","b","c","d","e","f">>
IsXDigit(c) == \E k \in 1..16 : XDigits[k] = c
XVal(c) == (CHOOSE k \in 1..16 : XDigits[k] = c) - 1

\* _parse_integer: consume the digits valid in the base
RECURSIVE parse_integer(_, _, _, _)
parse_integer(s, p, base, acc) ==
    IF IsXDigit(Ch(s, p)) /\ XVal(Ch(s, p)) < base
    THEN parse_integer(s, p + 1, base, acc * base + XVal(Ch(s, p)))
    ELSE [val |-> acc, end |-> p]

\* _parse_integer_fixup_radix with base 0
fixup_radix(s, p) ==
    IF Ch(s, p) = "0"
    THEN IF Ch(s, p + 1) = "x" /\ IsXDigit(Ch(s, p + 2)) THEN 16 ELSE 8
    ELSE 10

simple_strtoul(s, p) ==
    LET base == fixup_radix(s, p)
    IN  parse_integer(s, IF base = 16 THEN p + 2 ELSE p, base, 0)

simple_strtol(s, p) ==
    IF Ch(s, p) = "-"
    THEN LET u == simple_strtoul(s, p + 1) IN [val |-> 0 - u.val, end |-> u.end]
    ELSE simple_strtoul(s, p)

\* get_option: res 0 = no int, 1 = int, 2 = int then comma, 3 = int then '-'
get_option(s, p) ==
    IF Ch(s, p) = ""
    THEN [res |-> 0, wrote |-> FALSE, val |-> 0, p |-> p]
    ELSE The({
             IF v.end = p
             THEN [res |-> 0, wrote |-> TRUE, val |-> v.val, p |-> p]
             ELSE IF Ch(s, v.end) = ","
             THEN [res |-> 2, wrote |-> TRUE, val |-> v.val, p |-> v.end + 1]
             ELSE IF Ch(s, v.end) = "-"
             THEN [res |-> 3, wrote |-> TRUE, val |-> v.val, p |-> v.end]
             ELSE [res |-> 1, wrote |-> TRUE, val |-> v.val, p |-> v.end]
         : v \in {simple_strtol(s, p)}})

\* get_range: p is at the '-'; fills ints[k..] with the range but its upper
\* end, at most n slots; returns the size of the range
get_range(s, p, ints, k, n) ==
    LET upper == simple_strtol(s, p + 1).val
        first == ints[k]
        span  == upper - first
        cnt   == IF span < 0 THEN 0 ELSE IF span < n THEN span ELSE n
    IN  [ints |-> [x \in DOMAIN ints |->
                     IF x >= k /\ x < k + cnt THEN first + (x - k) ELSE ints[x]],
         inc  |-> span,
         p    |-> p + 1]

\* the body of the loop once get_option has returned o and written ints[k]
RECURSIVE get_options_loop(_, _, _, _, _)
get_options_body(s, k, nints, o, a1) ==
    IF o.res = 0
    THEN [ints |-> [a1 EXCEPT ![0] = k - 1], p |-> o.p]
    ELSE IF o.res = 3
    THEN The({ IF r.inc < 0
               THEN [ints |-> [r.ints EXCEPT ![0] = k - 1], p |-> r.p]
               ELSE get_options_loop(s, r.p, k + (r.inc - 1) + 1, nints, r.ints)
             : r \in {get_range(s, o.p, a1, k, nints - k)} })
    ELSE IF o.res = 1
    THEN [ints |-> [a1 EXCEPT ![0] = k], p |-> o.p]
    ELSE get_options_loop(s, o.p, k + 1, nints, a1)

\* while (i < nints) { res = get_option(&str, ints + i); ... } ints[0] = i - 1;
get_options_loop(s, p, k, nints, ints) ==
    IF ~(k < nints)
    THEN [ints |-> [ints EXCEPT ![0] = k - 1], p |-> p]
    ELSE The({ The({ get_options_body(s, k, nints, o, a1)
                   : a1 \in {IF o.wrote THEN [ints EXCEPT ![k] = o.val]
                                        ELSE ints} })
             : o \in {get_option(s, p)} })

\* get_options(str, nints, ints): the list written in place, and the pointer
\* returned (the unparsed rest of str)
get_options(str, nints, ints) ==
    IF str.null
    THEN [ints |-> [ints EXCEPT ![0] = 0], rest |-> NULL]
    ELSE The({ [ints |-> r.ints,
                rest |-> Str(SubSeq(str.chars, r.p, Len(str.chars)))]
             : r \in {get_options_loop(str.chars, 1, 1, nints, ints)} })

----------------------------------------------------------------------------
(* nmimgr_setup_panic / nmimgr_setup_ignore *)

\* if (ret && *ret != 0) return 0; return 1;
setup_status(rest) == IF ~rest.null /\ rest.chars # <<>> THEN 0 ELSE 1

ZeroList == [x \in 0..(NMIMGR_NBMAX - 1) |-> 0]

\* variant: the list is cleared before the string is parsed into it
nmimgr_setup_panic_Cleared(str) ==
    The({ [list |-> r.ints, rv |-> setup_status(r.rest)]
        : r \in {get_options(str, NMIMGR_NBMAX, ZeroList)} })

\* ret = get_options(str, NMIMGR_NBMAX, events_panic_list);
nmimgr_setup_panic(str) ==
    The({ [list |-> r.ints, rv |-> setup_status(r.rest)]
        : r \in {get_options(str, NMIMGR_NBMAX, events_panic_list)} })

\* ret = get_options(str, NMIMGR_NBMAX, events_ignore_list);
nmimgr_setup_ignore(str) ==
    The({ [list |-> r.ints, rv |-> setup_status(r.rest)]
        : r \in {get_options(str, NMIMGR_NBMAX, events_ignore_list)} })

\* The kernel the module is built for decides how get_range fills a range:
\* TRUE, it takes the number of slots left and stops there (as get_range
\* above); FALSE, it writes the whole range, past the end of the list when
\* the range is longer than the slots left.
RangeBounded == BOOLEAN

\* get_options leaves i past nints only after a range longer than the slots
\* left; the get_range that writes the whole range has then written the
\* slots up to i - 1 = ints[0], the last of them outside the list
range_writes_past(ints, nints) == ints[0] > nints - 1

\* variant: init_module goes to registration right after the first setup call
AfterSetup_SkipsIgnore(list, b, next) ==
    IF ~b /\ range_writes_past(list, NMIMGR_NBMAX) THEN "corrupt"
    ELSE "reg_unknown"

\* where control is after a setup call: memory past the list is overwritten
\* ("corrupt", not followed further) or the caller goes on
AfterSetup(list, b, next) ==
    IF ~b /\ range_writes_past(list, NMIMGR_NBMAX) THEN "corrupt" ELSE next

----------------------------------------------------------------------------
(* __nmimgr_handle *)

\* variant: the scan starts one slot late
IgnoreMatch_FromSecond(reason) ==
    \E k \in 2..(NMIMGR_NBMAX - 1) : events_ignore_list[k] = reason

\* for(i=1; i<NMIMGR_NBMAX; i++) if (reason == events_ignore_list[i])
IgnoreMatch(reason) ==
    \E k \in 1..(NMIMGR_NBMAX - 1) : events_ignore_list[k] = reason

\* variant: the scan includes slot 0, where the parser keeps the count
PanicMatch_FromCount(reason) ==
    \E k \in 0..(NMIMGR_NBMAX - 1) : events_panic_list[k] = reason

\* for(i=1; i<NMIMGR_NBMAX; i++) if (reason == events_panic_list[i])
PanicMatch(reason) ==
    \E k \in 1..(NMIMGR_NBMAX - 1) : events_panic_list[k] = reason

\* variant: the panic list is scanned before the ignore list
handle_PanicFirst(type, reason) ==
    IF PanicMatch(reason)
    THEN [ret |-> "PANIC", log |-> <<"Handling", "Panic">>]
    ELSE IF IgnoreMatch(reason)
    THEN [ret |-> "NMI_HANDLED", log |-> <<"Handling", "Ignore">>]
    ELSE [ret |-> "NMI_DONE", log |-> <<"Handling", "Unmanaged">>]

\* variant: an ignored event is passed on to the other handlers
handle_IgnorePassesOn(type, reason) ==
    IF IgnoreMatch(reason)
    THEN [ret |-> "NMI_DONE", log |-> <<"Handling", "Ignore">>]
    ELSE IF PanicMatch(reason)
    THEN [ret |-> "PANIC", log |-> <<"Handling", "Panic">>]
    ELSE [ret |-> "NMI_DONE", log |-> <<"Handling", "Unmanaged">>]

\* variant: an ignored event is dropped without any log line
handle_SilentIgnore(type, reason) ==
    IF IgnoreMatch(reason)
    THEN [ret |-> "NMI_HANDLED", log |-> <<>>]
    ELSE IF PanicMatch(reason)
    THEN [ret |-> "PANIC", log |-> <<"Handling", "Panic">>]
    ELSE [ret |-> "NMI_DONE", log |-> <<"Handling", "Unmanaged">>]

\* variant: panic() returns and the handler carries on to its last lines
handle_PanicReturns(type, reason) ==
    IF IgnoreMatch(reason)
    THEN [ret |-> "NMI_HANDLED", log |-> <<"Handling", "Ignore">>]
    ELSE IF PanicMatch(reason)
    THEN [ret |-> "NMI_DONE", log |-> <<"Handling", "Panic", "Unmanaged">>]
    ELSE [ret |-> "NMI_DONE", log |-> <<"Handling", "Unmanaged">>]

\* the outcome ("PANIC": panic() was called, control does not return) and
\* the lines logged at notice level or above
handle(type, reason) ==
    IF IgnoreMatch(reason)
    THEN [ret |-> "NMI_HANDLED", log |-> <<"Handling", "Ignore">>]
    ELSE IF PanicMatch(reason)
    THEN [ret |-> "PANIC", log |-> <<"Handling", "Panic">>]
    ELSE [ret |-> "NMI_DONE", log |-> <<"Handling", "Unmanaged">>]

----------------------------------------------------------------------------
(* The host: register_nmi_handler / unregister_nmi_handler *)

\* results of register_nmi_handler: 0 or an error (-EINVAL)
RegRets == {0, -22}

Sources == {NMI_UNKNOWN, NMI_SERR, NMI_IO_CHECK}

NoEvent == [type |-> 0, reason |-> 0, ret |-> "none", log |-> <<>>]

\* An NMI handler runs to completion on the CPU it interrupted: the code it
\* interrupted resumes when it returns
NoNmi == nmi = NoEvent

Panicked == nmi.ret = "PANIC"

----------------------------------------------------------------------------
(* __setup("nmimgr.events_panic=", ...) / __setup("nmimgr.events_ignore=", ...) *)

NoCmdline == [panic |-> NULL, ignore |-> NULL]

\* the kernel calls the hook of an option given on its command line, with
\* the option's value
BootSetupPanic ==
    /\ pc = "boot"
    /\ ~cmdline.panic.null
    /\ setup_ret.panic = -1
    /\ \E r \in {nmimgr_setup_panic(cmdline.panic)}, b \in RangeBounded :
           /\ events_panic_list' = r.list
           /\ setup_ret' = [setup_ret EXCEPT !.panic = r.rv]
           /\ pc' = AfterSetup(r.list, b, "boot")
    /\ UNCHANGED <<events_panic, events_ignore, events_ignore_list, i, ret,
                   bound, calls, init_ret, nmi, hnd, cmdline>>

BootSetupIgnore ==
    /\ pc = "boot"
    /\ ~cmdline.ignore.null
    /\ setup_ret.ignore = -1
    /\ \E r \in {nmimgr_setup_ignore(cmdline.ignore)}, b \in RangeBounded :
           /\ events_ignore_list' = r.list
           /\ setup_ret' = [setup_ret EXCEPT !.ignore = r.rv]
           /\ pc' = AfterSetup(r.list, b, "boot")
    /\ UNCHANGED <<events_panic, events_ignore, events_panic_list, i, ret,
                   bound, calls, init_ret, nmi, hnd, cmdline>>

\* the command line has been gone through; init_module is called
BootDone ==
    /\ pc = "boot"
    /\ cmdline.panic.null \/ setup_ret.panic # -1
    /\ cmdline.ignore.null \/ setup_ret.ignore # -1
    /\ pc' = "init_setup_panic"
    /\ UNCHANGED <<events_panic, events_ignore, events_panic_list,
                   events_ignore_list, i, ret, bound, calls, setup_ret,
                   init_ret, nmi, hnd, cmdline>>

----------------------------------------------------------------------------
(* init_module *)

\* nmimgr_setup_panic(events_panic);
InitSetupPanic ==
    /\ NoNmi
    /\ pc = "init_setup_panic"
    /\ \E r \in {nmimgr_setup_panic(events_panic)}, b \in RangeBounded :
           /\ events_panic_list' = r.list
           /\ setup_ret' = [setup_ret EXCEPT !.panic = r.rv]
           /\ pc' = AfterSetup(r.list, b, "init_setup_ignore")
    /\ UNCHANGED <<events_panic, events_ignore, events_ignore_list, i, ret,
                   bound, calls, init_ret, nmi, hnd,
                   cmdline>>

\* nmimgr_setup_ignore(events_ignore);
InitSetupIgnore ==
    /\ NoNmi
    /\ pc = "init_setup_ignore"
    /\ \E r \in {nmimgr_setup_ignore(events_ignore)}, b \in RangeBounded :
           /\ events_ignore_list' = r.list
           /\ setup_ret' = [setup_ret EXCEPT !.ignore = r.rv]
           /\ pc' = AfterSetup(r.list, b, "reg_unknown")
    /\ UNCHANGED <<events_panic, events_ignore, events_panic_list, i, ret,
                   bound, calls, init_ret, nmi, hnd,
                   cmdline>>

\* where nmimgr_register goes after registering type with result r
AfterRegister(type, r) ==
    IF r # 0 THEN "err"
    ELSE IF type = NMI_UNKNOWN THEN "reg_serr"
    ELSE IF type = NMI_SERR THEN "reg_io_check"
    ELSE "reg_done"

\* variant: the rollback starts one source too low
ErrStart_OneShort(type) == type - 2

\* the value nmimgr_register gives i before goto err
ErrStart(type) == type - 1

\* ret = register_nmi_handler(type, ...); if (ret) { i = type-1; goto err; }
Register(at, type) ==
    /\ NoNmi
    /\ pc = at
    /\ \E r \in RegRets :
         /\ ret' = r
         /\ calls' = Append(calls, <<"register", type, r>>)
         /\ bound' = IF r = 0 THEN bound \cup {type} ELSE bound
         /\ i' = IF r # 0 THEN ErrStart(type) ELSE i
         /\ pc' = AfterRegister(type, r)
    /\ UNCHANGED <<events_panic, events_ignore, events_panic_list,
                   events_ignore_list, setup_ret, init_ret, nmi, hnd,
                   cmdline>>

RegisterUnknown == Register("reg_unknown", NMI_UNKNOWN)
RegisterSerr    == Register("reg_serr", NMI_SERR)
RegisterIoCheck == Register("reg_io_check", NMI_IO_CHECK)

\* variant: the loop at err: runs down to source 0 included
RollbackContinue_ThroughLocal(k) == k >= 0

\* the condition of the loop at err:
RollbackContinue(k) == k > 0

\* err: for(; i>0; i--) unregister_nmi_handler(i, NMIMGR_NAME);
Rollback ==
    /\ NoNmi
    /\ pc = "err"
    /\ RollbackContinue(i)
    /\ bound' = bound \ {i}
    /\ calls' = Append(calls, <<"unregister", i, 0>>)
    /\ i' = i - 1
    /\ UNCHANGED <<events_panic, events_ignore, events_panic_list,
                   events_ignore_list, pc, ret, setup_ret, init_ret, nmi, hnd,
                   cmdline>>

\* variant: a failed parse makes init_module fail
init_module_result_ParseFatal(err, sp, si) ==
    IF err # 0 THEN err ELSE IF sp = 0 \/ si = 0 THEN -22 ELSE 0

\* init_module: err = nmimgr_register(); if (err) return err; return 0;
\* (the results of the two setup calls are discarded)
init_module_result(err, sp, si) == IF err # 0 THEN err ELSE 0

InitReturn ==
    /\ NoNmi
    /\ \/ pc = "reg_done"
       \/ pc = "err" /\ ~RollbackContinue(i)
    /\ init_ret' = init_module_result(ret, setup_ret.panic, setup_ret.ignore)
    /\ pc' = IF init_ret' = 0 THEN "loaded" ELSE "init_failed"
    /\ UNCHANGED <<events_panic, events_ignore, events_panic_list,
                   events_ignore_list, i, ret, bound, calls, setup_ret, nmi, hnd,
                   cmdline>>

----------------------------------------------------------------------------
(* clean_module / nmimgr_unregister *)

CleanModule ==
    /\ NoNmi
    /\ pc = "loaded"
    /\ pc' = "unreg"
    /\ i' = NMI_MAX - 1
    /\ UNCHANGED <<events_panic, events_ignore, events_panic_list,
                   events_ignore_list, ret, bound, calls, setup_ret,
                   init_ret, nmi, hnd,
                   cmdline>>

\* variant: the loop stops one source early
UnregisterContinue_StopsEarly(k) == k > NMI_UNKNOWN

\* the condition of the loop of nmimgr_unregister
UnregisterContinue(k) == k > NMI_LOCAL

\* for (i=NMI_MAX-1; i>NMI_LOCAL; i--) unregister_nmi_handler(i, NMIMGR_NAME);
Unregister ==
    /\ NoNmi
    /\ pc = "unreg"
    /\ UnregisterContinue(i)
    /\ bound' = bound \ {i}
    /\ calls' = Append(calls, <<"unregister", i, 0>>)
    /\ i' = i - 1
    /\ UNCHANGED <<events_panic, events_ignore, events_panic_list,
                   events_ignore_list, pc, ret, setup_ret, init_ret, nmi, hnd,
                   cmdline>>

CleanReturn ==
    /\ NoNmi
    /\ pc = "unreg"
    /\ ~UnregisterContinue(i)
    /\ pc' = "unloaded"
    /\ UNCHANGED <<events_panic, events_ignore, events_panic_list,
                   events_ignore_list, i, ret, bound, calls, setup_ret,
                   init_ret, nmi, hnd,
                   cmdline>>

----------------------------------------------------------------------------
(* nmimgr_handle: the host delivers an NMI of a type the handler is bound  *)
(* to; the reason is what x86_platform.get_nmi_reason() returns            *)

nmimgr_handle ==
    /\ NoNmi
    /\ \E type \in bound, reason \in Reasons :
         LET h == handle(type, reason)
         IN  nmi' = [type |-> type, reason |-> reason,
                     ret |-> h.ret, log |-> h.log]
    /\ UNCHANGED <<events_panic, events_ignore, events_panic_list,
                   events_ignore_list, pc, i, ret, bound, calls, setup_ret,
                   init_ret, hnd, cmdline>>

\* the handler returns to the host's NMI dispatch, which takes the result;
\* after panic() there is no return
NmiReturn ==
    /\ nmi.ret \in {"NMI_HANDLED", "NMI_DONE"}
    /\ nmi' = NoEvent
    /\ UNCHANGED <<events_panic, events_ignore, events_panic_list,
                   events_ignore_list, pc, i, ret, bound, calls, setup_ret,
                   init_ret, hnd, cmdline>>

\* the same, delivered once the module is loaded
nmimgr_handle_loaded == pc = "loaded" /\ nmimgr_handle

----------------------------------------------------------------------------
(* __nmimgr_handle, one loop iteration at a time, in two contexts: NMIs on  *)
(* two CPUs, or an NMI and a second one nested in it on the same CPU        *)

Contexts == {"first", "second"}

Idle == [pc |-> "idle", i |-> 0, type |-> 0, reason |-> 0, ret |-> "none"]

\* the reason codes delivered to the stepwise handler: one for each way out
\* of it with events_panic=5,6,7 events_ignore=99 (ignored at the first
\* slot, ignored at an empty slot, panic, unmanaged)
StepReasons == {99, 0, 5, 200}

\* the NMI types delivered to the stepwise handler
StepTypes == {NMI_UNKNOWN, NMI_IO_CHECK}

\* variant: the loop variable is a static shared by all invocations
IndexOf_Static(c) == "first"

\* int i: each invocation has its own
IndexOf(c) == c

HaltedStep == \E c \in Contexts : hnd[c].ret = "PANIC"

\* nmimgr_handle(type, regs) is entered: for(i=1; ...
HandleEnter(c) ==
    /\ ~HaltedStep
    /\ pc = "loaded"
    /\ hnd[c].pc = "idle"
    /\ \E type \in bound \cap StepTypes, reason \in StepReasons :
         hnd' = [[hnd EXCEPT ![c] = [pc |-> "ignore", i |-> hnd[c].i,
                                     type |-> type, reason |-> reason,
                                     ret |-> "none"]]
                      EXCEPT ![IndexOf(c)].i = 1]
    /\ UNCHANGED <<events_panic, events_ignore, events_panic_list,
                   events_ignore_list, pc, i, ret, bound, calls, setup_ret,
                   init_ret, nmi, cmdline>>

\* one iteration of the ignore loop, or its exit into the panic loop
HandleIgnoreStep(c) ==
    /\ ~HaltedStep
    /\ hnd[c].pc = "ignore"
    /\ hnd' =
         IF hnd[IndexOf(c)].i < NMIMGR_NBMAX
         THEN IF hnd[c].reason = events_ignore_list[hnd[IndexOf(c)].i]
              THEN [hnd EXCEPT ![c].pc = "done", ![c].ret = "NMI_HANDLED"]
              ELSE [hnd EXCEPT ![IndexOf(c)].i = @ + 1]
         ELSE [[hnd EXCEPT ![c].pc = "panic"] EXCEPT ![IndexOf(c)].i = 1]
    /\ UNCHANGED <<events_panic, events_ignore, events_panic_list,
                   events_ignore_list, pc, i, ret, bound, calls, setup_ret,
                   init_ret, nmi, cmdline>>

\* one iteration of the panic loop, or its exit to return NMI_DONE
HandlePanicStep(c) ==
    /\ ~HaltedStep
    /\ hnd[c].pc = "panic"
    /\ hnd' =
         IF hnd[IndexOf(c)].i < NMIMGR_NBMAX
         THEN IF hnd[c].reason = events_panic_list[hnd[IndexOf(c)].i]
              THEN [hnd EXCEPT ![c].pc = "done", ![c].ret = "PANIC"]
              ELSE [hnd EXCEPT ![IndexOf(c)].i = @ + 1]
         ELSE [hnd EXCEPT ![c].pc = "done", ![c].ret = "NMI_DONE"]
    /\ UNCHANGED <<events_panic, events_ignore, events_panic_list,
                   events_ignore_list, pc, i, ret, bound, calls, setup_ret,
                   init_ret, nmi, cmdline>>

\* the invocation has returned and the host has taken its result
HandleLeave(c) ==
    /\ ~HaltedStep
    /\ hnd[c].pc = "done"
    /\ hnd' = [hnd EXCEPT ![c] = Idle]
    /\ UNCHANGED <<events_panic, events_ignore, events_panic_list,
                   events_ignore_list, pc, i, ret, bound, calls, setup_ret,
                   init_ret, nmi, cmdline>>

----------------------------------------------------------------------------
(* Specifications *)

\* parameter strings of the life-cycle specification
LifeStrings == {NULL, Str(S_99), Str(S_5abc), Str(S_567)}

\* parameter strings of the triage specification
TriageStrings == {NULL, Str(S_example), Str(S_99), Str(S_5abc), Str(S_rev),
                  Str(S_full), Str(S_0), Str(S_over), Str(S_567)}

InitWith(strings) ==
    /\ events_panic \in strings
    /\ events_ignore \in strings
    /\ events_panic_list = ZeroList
    /\ events_ignore_list = ZeroList
    /\ pc = "init_setup_panic"
    /\ i = 0
    /\ ret = 0
    /\ bound = {}
    /\ calls = <<>>
    /\ setup_ret = [panic |-> -1, ignore |-> -1]
    /\ init_ret = 0
    /\ nmi = NoEvent
    /\ hnd = [c \in Contexts |-> Idle]
    /\ cmdline = NoCmdline

Init == InitWith(LifeStrings)

Next ==
    \/ InitSetupPanic
    \/ InitSetupIgnore
    \/ RegisterUnknown
    \/ RegisterSerr
    \/ RegisterIoCheck
    \/ Rollback
    \/ InitReturn
    \/ CleanModule
    \/ Unregister
    \/ CleanReturn
    \/ nmimgr_handle
    \/ NmiReturn

Spec == Init /\ [][Next]_vars

\* every parameter string, NMIs delivered to the loaded module
InitTriage == InitWith(TriageStrings)

NextTriage ==
    \/ InitSetupPanic
    \/ InitSetupIgnore
    \/ RegisterUnknown
    \/ RegisterSerr
    \/ RegisterIoCheck
    \/ Rollback
    \/ InitReturn
    \/ nmimgr_handle_loaded
    \/ NmiReturn

SpecTriage == InitTriage /\ [][NextTriage]_vars

\* the module loaded with events_panic=5,6,7 events_ignore=99, NMIs handled
\* one loop iteration at a time in two contexts
InitStep ==
    /\ events_panic = Str(S_567)
    /\ events_ignore = Str(S_99)
    /\ events_panic_list = get_options(events_panic, NMIMGR_NBMAX, ZeroList).ints
    /\ events_ignore_list = get_options(events_ignore, NMIMGR_NBMAX, ZeroList).ints
    /\ pc = "loaded"
    /\ i = 0
    /\ ret = 0
    /\ bound = Sources
    /\ calls = <<<<"register", NMI_UNKNOWN, 0>>, <<"register", NMI_SERR, 0>>,
                 <<"register", NMI_IO_CHECK, 0>>>>
    /\ setup_ret = [panic |-> 1, ignore |-> 1]
    /\ init_ret = 0
    /\ nmi = NoEvent
    /\ hnd = [c \in Contexts |-> Idle]
    /\ cmdline = NoCmdline

NextStep ==
    \E c \in Contexts :
        \/ HandleEnter(c)
        \/ HandleIgnoreStep(c)
        \/ HandlePanicStep(c)
        \/ HandleLeave(c)

SpecStep == InitStep /\ [][NextStep]_vars

\* strings of the boot specification: the kernel command line's, the
\* module parameters'
BootStrings  == {NULL, Str(S_567), Str(S_example)}
ParamStrings == {NULL, Str(S_99), Str(S_5abc)}

\* the handler built into the kernel: the options of the command line are
\* parsed by the __setup hooks, then init_module parses the module parameters
InitBoot ==
    /\ events_panic \in ParamStrings
    /\ events_ignore \in ParamStrings
    /\ events_panic_list = ZeroList
    /\ events_ignore_list = ZeroList
    /\ pc = "boot"
    /\ i = 0
    /\ ret = 0
    /\ bound = {}
    /\ calls = <<>>
    /\ setup_ret = [panic |-> -1, ignore |-> -1]
    /\ init_ret = 0
    /\ nmi = NoEvent
    /\ hnd = [c \in Contexts |-> Idle]
    /\ cmdline \in [panic : BootStrings, ignore : BootStrings]

NextBoot ==
    \/ BootSetupPanic
    \/ BootSetupIgnore
    \/ BootDone
    \/ InitSetupPanic
    \/ InitSetupIgnore
    \/ RegisterUnknown
    \/ RegisterSerr
    \/ RegisterIoCheck
    \/ Rollback
    \/ InitReturn
    \/ nmimgr_handle_loaded
    \/ NmiReturn

SpecBoot == InitBoot /\ [][NextBoot]_vars

TypeOK ==
    /\ pc \in {"boot", "init_setup_panic", "init_setup_ignore", "reg_unknown",
               "reg_serr", "reg_io_check", "reg_done", "err", "loaded",
               "init_failed", "unreg", "unloaded", "corrupt"}
    /\ bound \subseteq Sources
    /\ i \in 0..(NMI_MAX - 1)
    /\ nmi.ret \in {"none", "NMI_HANDLED", "NMI_DONE", "PANIC"}

----------------------------------------------------------------------------
(* What the properties are stated over *)

\* the reason codes a parameter string lists, as its author reads it
Listed(str) ==
    CASE str = NULL           -> {}
      [] str = Str(S_example) -> {0, 1, 2} \cup (5..13) \cup {255}
      [] str = Str(S_99)      -> {99}
      [] str = Str(S_5abc)    -> {5}
      [] str = Str(S_rev)     -> {}
      [] str = Str(S_full)    -> 1..255
      [] str = Str(S_0)       -> {0}
      [] str = Str(S_over)    -> 3..255
      [] str = Str(S_567)     -> {5, 6, 7}

\* the parameter strings that follow the grammar and fit the capacity
WellFormed(str) ==
    str \in {NULL, Str(S_example), Str(S_99), Str(S_full), Str(S_0), Str(S_567)}

\* the values held by the slots the handler scans
ListCodes(list) == {list[k] : k \in 1..(NMIMGR_NBMAX - 1)}

\* the handler has run on an NMI
Handled == nmi.ret # "none"

----------------------------------------------------------------------------
(* C1: a reason code listed in events_panic and not listed in events_ignore *)
(* makes the handler panic, for every code 0..255 and in particular for 0   *)
(* when the ignore list is empty or holds fewer than 255 entries.           *)
C1_ListedPanics ==
    (/\ Handled
     /\ WellFormed(events_panic) /\ WellFormed(events_ignore)
     /\ nmi.reason \in Listed(events_panic) \ Listed(events_ignore))
    => nmi.ret = "PANIC"

(* C2: a reason code listed in no category is left to the other handlers    *)
(* (NMI_DONE); an empty or absent list matches no code, 0 included.         *)
C2_UnlistedIsUnmanaged ==
    (/\ Handled
     /\ WellFormed(events_panic) /\ WellFormed(events_ignore)
     /\ nmi.reason \notin Listed(events_panic) \cup Listed(events_ignore))
    => nmi.ret = "NMI_DONE"

(* C3: a reason code that is in the ignore list never reaches panic(),      *)
(* whether or not it is in the panic list too: the ignore check comes first *)
(* and wins.                                                                *)
C3_IgnoreNeverPanics ==
    (/\ Handled
     /\ \/ nmi.reason \in ListCodes(events_ignore_list)
        \/ nmi.reason \in Listed(events_ignore))
    => nmi.ret # "PANIC"

\* an NMI whose reason is listed in both parameters has been handled
C3_Witness ==
    /\ Handled
    /\ nmi.reason # 0
    /\ nmi.reason \in Listed(events_ignore) \cap Listed(events_panic)
    /\ nmi.reason \in ListCodes(events_panic_list)
    /\ nmi.ret = "NMI_HANDLED"

(* C4, as claimed: an event whose reason code is in the ignore list is      *)
(* passed on (not consumed), so that other handlers still see it.           *)
C4_IgnoredIsPassedOn ==
    (Handled /\ nmi.reason \in ListCodes(events_ignore_list))
    => nmi.ret = "NMI_DONE"

(* C4, amended: an event whose reason code is in the ignore list is         *)
(* consumed: the handler returns NMI_HANDLED, logs the drop, and does not   *)
(* pass the event on.                                                       *)
C4_IgnoredIsConsumed ==
    (Handled /\ nmi.reason \in ListCodes(events_ignore_list))
    => /\ nmi.ret = "NMI_HANDLED"
       /\ nmi.log = <<"Handling", "Ignore">>

\* an NMI with a nonzero reason held by the ignore list has been handled
C4_Witness ==
    /\ Handled
    /\ nmi.reason # 0
    /\ nmi.reason \in ListCodes(events_ignore_list)
    /\ nmi.reason \notin ListCodes(events_panic_list)

(* C5: every event whose reason code is listed in events_ignore is dropped: *)
(* the handler returns NMI_HANDLED.                                         *)
C5_ListedIgnoreIsDropped ==
    (Handled /\ nmi.reason \in Listed(events_ignore))
    => nmi.ret = "NMI_HANDLED"

\* the usage example of the header: events_ignore=99 and an NMI of reason 99
C5_Witness ==
    /\ Handled
    /\ events_ignore = Str(S_99)
    /\ nmi.reason = 99
    /\ nmi.type = NMI_UNKNOWN

----------------------------------------------------------------------------
\* the host calls of one kind made so far
RegisterCalls   == SelectSeq(calls, LAMBDA c : c[1] = "register")
UnregisterCalls == SelectSeq(calls, LAMBDA c : c[1] = "unregister")

(* C6: nmimgr_register is all-or-nothing: whichever register calls fail, on *)
(* return either the three sources are bound and the result is 0, or the    *)
(* result is a failure and no source is bound; init_module fails exactly in *)
(* the second case.                                                         *)
C6_AllOrNothing ==
    /\ pc \in {"reg_done", "loaded"} => bound = Sources /\ ret = 0
    /\ pc = "loaded" => init_ret = 0
    /\ (pc = "err" /\ i <= 0) => bound = {} /\ ret # 0
    /\ pc = "init_failed" => bound = {} /\ ret # 0 /\ init_ret # 0

\* the third register call failed and init_module returned the failure
C6_Witness ==
    /\ pc = "init_failed"
    /\ Len(RegisterCalls) = 3
    /\ Len(UnregisterCalls) = 2

(* C7: after a successful init, nmimgr_unregister unbinds every bound       *)
(* source in the reverse of the registration order (NMI_IO_CHECK, NMI_SERR, *)
(* NMI_UNKNOWN), all three of them, and afterwards no source is bound.      *)
C7_UnregisterAllReverse ==
    /\ pc = "unreg" =>
         /\ Len(UnregisterCalls) = (NMI_MAX - 1) - i
         /\ \A j \in 1..Len(UnregisterCalls) :
              UnregisterCalls[j] = <<"unregister", NMI_MAX - j, 0>>
    /\ pc = "unloaded" =>
         /\ UnregisterCalls = <<<<"unregister", NMI_IO_CHECK, 0>>,
                                <<"unregister", NMI_SERR, 0>>,
                                <<"unregister", NMI_UNKNOWN, 0>>>>
         /\ bound = {}

\* the module was loaded and has been unloaded
C7_Witness ==
    /\ pc = "unloaded"
    /\ Len(calls) = 6

(* C8: when the parse of a category's string fails, the category is left    *)
(* empty: afterwards no reason code matches it.                             *)
C8_FailedParseLeavesEmpty ==
    /\ setup_ret.panic = 0 => \A r \in Reasons : ~PanicMatch(r)
    /\ setup_ret.ignore = 0 => \A r \in Reasons : ~IgnoreMatch(r)

(* C9: a parse failure on one string is isolated and not fatal: init_module *)
(* parses the other string too, whose codes become active, goes on to       *)
(* nmimgr_register, and returns what registration returned, whatever the    *)
(* parse results.                                                           *)
C9_ParseFailureIsolated ==
    /\ pc \notin {"init_setup_panic", "init_setup_ignore"} =>
         /\ setup_ret.panic \in {0, 1}
         /\ setup_ret.ignore \in {0, 1}
         /\ setup_ret.panic = 1 =>
              Listed(events_panic) \subseteq ListCodes(events_panic_list)
         /\ setup_ret.ignore = 1 =>
              Listed(events_ignore) \subseteq ListCodes(events_ignore_list)
    /\ pc \in {"loaded", "init_failed"} =>
         /\ RegisterCalls # <<>>
         /\ RegisterCalls[1] [2] = NMI_UNKNOWN
         /\ init_ret = RegisterCalls[Len(RegisterCalls)] [3]

\* events_panic failed to parse, events_ignore parsed, the module loaded and
\* dropped an NMI listed in events_ignore
C9_Witness ==
    /\ pc = "loaded"
    /\ setup_ret.panic = 0
    /\ setup_ret.ignore = 1
    /\ Handled
    /\ nmi.reason \in Listed(events_ignore)
    /\ nmi.ret = "NMI_HANDLED"

(* C10: after events_panic=0,1,2,5-12,13,255 with no events_ignore, the     *)
(* handler panics for exactly the reason codes 0,1,2,5..13,255.             *)
C10_ExamplePanicsExactly ==
    (/\ Handled
     /\ events_panic = Str(S_example)
     /\ events_ignore = NULL)
    => (nmi.ret = "PANIC" <=> nmi.reason \in {0, 1, 2} \cup (5..13) \cup {255})

----------------------------------------------------------------------------
\* the parameter strings that supply more values than a list has slots for
TooMany(str) == str = Str(S_over)

(* C11: the number of codes stored for a category never exceeds the         *)
(* capacity (NMIMGR_NBMAX slots, one reserved); more values than that, also *)
(* through a range, are reported as an error, are never written outside the *)
(* list, and none of them past the capacity is admitted.                    *)
C11_CapacityRespected ==
    /\ pc # "corrupt"
    /\ events_panic_list[0] <= NMIMGR_NBMAX - 1
    /\ events_ignore_list[0] <= NMIMGR_NBMAX - 1
    /\ (TooMany(events_panic) /\ setup_ret.panic # -1) => setup_ret.panic = 0
    /\ (TooMany(events_ignore) /\ setup_ret.ignore # -1) => setup_ret.ignore = 0

----------------------------------------------------------------------------
(* C12: the configuration is established before the first source is bound   *)
(* and frozen afterwards: both lists are parsed before the first register   *)
(* call, and from that call on no step changes either list, whatever NMIs   *)
(* are handled meanwhile.                                                   *)
C12_ConfigFrozen ==
    /\ [](calls # <<>> => setup_ret.panic # -1 /\ setup_ret.ignore # -1)
    /\ [][(calls # <<>> \/ calls' # <<>>) =>
            /\ events_panic_list' = events_panic_list
            /\ events_ignore_list' = events_ignore_list]_vars

\* sources are bound, both lists hold codes, and an NMI is being handled
C12_Witness ==
    /\ bound # {}
    /\ Handled
    /\ events_panic_list[0] > 0
    /\ events_ignore_list[0] > 0

----------------------------------------------------------------------------
(* C13: two handler invocations interleaved arbitrarily against the same    *)
(* frozen lists share no written state, and each produces the outcome the   *)
(* same (type, reason) produces when evaluated alone.                       *)
C13_InterleavedAsAlone ==
    /\ [](\A c \in Contexts :
            hnd[c].pc = "done" =>
                hnd[c].ret = handle(hnd[c].type, hnd[c].reason).ret)
    /\ [][/\ events_panic_list' = events_panic_list
          /\ events_ignore_list' = events_ignore_list
          /\ \A c, d \in Contexts :
                (c # d /\ hnd'[c] # hnd[c]) => hnd'[d] = hnd[d]]_vars

\* one invocation has scanned both lists to the end while the other is in
\* the middle of its panic loop
C13_Witness ==
    /\ hnd["first"].pc = "done"
    /\ hnd["first"].ret = "NMI_DONE"
    /\ hnd["second"].pc = "panic"
    /\ hnd["second"].i > 1

----------------------------------------------------------------------------
\* the number of lines of one kind logged for the NMI
Logged(line) == Len(SelectSeq(nmi.log, LAMBDA l : l = line))

(* C15, as claimed: an event whose reason code is in the ignore list        *)
(* produces no log entry at all; the line naming type and reason is emitted *)
(* only once the ignore check has not matched.                              *)
C15_IgnoredIsSilent ==
    (Handled /\ nmi.reason \in ListCodes(events_ignore_list))
    => nmi.log = <<>>

(* C15, amended: the line naming type and reason is emitted exactly once    *)
(* for every event, before the ignore check; an event whose reason code is  *)
(* in the ignore list logs it too, followed by one line reporting the drop. *)
C15_LoggedOnceBeforeIgnore ==
    Handled =>
        /\ Len(nmi.log) >= 1
        /\ nmi.log[1] = "Handling"
        /\ Logged("Handling") = 1
        /\ Logged("Ignore") =
              (IF nmi.reason \in ListCodes(events_ignore_list) THEN 1 ELSE 0)

\* the NMI of the usage example's ignored reason has been handled and logged
C15_Witness ==
    /\ Handled
    /\ nmi.reason = 99
    /\ events_ignore = Str(S_99)
    /\ Len(nmi.log) = 2

----------------------------------------------------------------------------
\* the number of register calls made when the first one failed, 0 if none did
FailedAt ==
    IF \E k \in 1..Len(RegisterCalls) : RegisterCalls[k][3] # 0
    THEN CHOOSE k \in 1..Len(RegisterCalls) :
             /\ RegisterCalls[k][3] # 0
             /\ \A j \in 1..(k - 1) : RegisterCalls[j][3] = 0
    ELSE 0

(* C16: when the k-th register call fails, no later source is registered,   *)
(* and the rollback unregisters exactly the k-1 sources bound before it, in *)
(* reverse order: never the source that failed, never one that was not      *)
(* bound.                                                                   *)
C16_RollbackExactlyBound ==
    FailedAt # 0 =>
        /\ Len(RegisterCalls) = FailedAt
        /\ \A j \in 1..FailedAt : RegisterCalls[j][2] = j
        /\ \A j \in 1..Len(calls) :
              calls[j][1] = "register" <=> j <= FailedAt
        /\ Len(UnregisterCalls) <= FailedAt - 1
        /\ \A j \in 1..Len(UnregisterCalls) :
              UnregisterCalls[j] = <<"unregister", FailedAt - j, 0>>
        /\ pc = "err" => Len(UnregisterCalls) = (FailedAt - 1) - i
        /\ pc = "init_failed" => Len(UnregisterCalls) = FailedAt - 1

\* the second register call failed and the one bound source was rolled back
C16_Witness ==
    /\ pc = "init_failed"
    /\ FailedAt = 2
    /\ UnregisterCalls = <<<<"unregister", NMI_UNKNOWN, 0>>>>

----------------------------------------------------------------------------
\* the handler reached its call of panic(): the line logged just before it
PanicTriggered == Logged("Panic") > 0

(* C17: panic is terminal: once the handler has triggered the halt, the     *)
(* invocation returns neither NMI_HANDLED nor NMI_DONE and logs no          *)
(* 'Unmanaged' line, and nothing happens afterwards: no other NMI is        *)
(* dispatched, no source is unbound.                                        *)
C17_PanicTerminal ==
    /\ [](PanicTriggered =>
             /\ nmi.ret \notin {"NMI_HANDLED", "NMI_DONE"}
             /\ Logged("Unmanaged") = 0)
    /\ [][PanicTriggered => UNCHANGED vars]_vars

\* the loaded module, all three sources bound, has panicked on an NMI
C17_Witness ==
    /\ PanicTriggered
    /\ pc = "loaded"
    /\ bound = Sources
    /\ nmi.reason \in ListCodes(events_panic_list)

----------------------------------------------------------------------------
\* the element counts the parser left in slot 0 of the two lists
Counts == {events_panic_list[0], events_ignore_list[0]}

(* C18: the count in slot 0 is never compared with the reason code: an NMI  *)
(* whose nonzero reason equals the number of entries of a list, and is in   *)
(* no slot from 1 on of either list, matches neither list and is passed on; *)
(* with events_panic=5,6,7 the reason 3 does not panic.                     *)
C18_CountNeverMatched ==
    /\ (/\ Handled
        /\ nmi.reason # 0
        /\ nmi.reason \in Counts
        /\ nmi.reason \notin ListCodes(events_panic_list)
        /\ nmi.reason \notin ListCodes(events_ignore_list))
       => nmi.ret = "NMI_DONE" /\ nmi.log = <<"Handling", "Unmanaged">>
    /\ (Handled /\ events_panic = Str(S_567) /\ nmi.reason = 3)
       => nmi.ret # "PANIC"

\* events_panic=5,6,7 and an NMI of reason 3, the count of the panic list
C18_Witness ==
    /\ Handled
    /\ events_panic = Str(S_567)
    /\ events_panic_list[0] = 3
    /\ nmi.reason = 3
    /\ nmi.ret = "NMI_DONE"

----------------------------------------------------------------------------
\* what the boot-time parse of a command-line value leaves in a list
BootLists ==
    [str \in BootStrings |-> get_options(str, NMIMGR_NBMAX, ZeroList).ints]

BootList(str) == BootLists[str]

\* the slots of a list that init_module's parse of str did not write: all of
\* them when str is NULL, those past the entries when str is well formed,
\* those past the entries and the slot a failed conversion wrote otherwise
Untouched(str, list) ==
    IF str.null THEN 1..(NMIMGR_NBMAX - 1)
    ELSE IF WellFormed(str) THEN (list[0] + 1)..(NMIMGR_NBMAX - 1)
    ELSE (list[0] + 2)..(NMIMGR_NBMAX - 1)

PanicParsed  == pc \notin {"boot", "init_setup_panic", "corrupt"}
IgnoreParsed == PanicParsed /\ pc # "init_setup_ignore"

(* C19: a list filled by the boot-time __setup parse survives the parse of  *)
(* init_module: with the module parameter NULL or shorter, the second parse *)
(* writes the count and the slots it fills only, every other slot keeps     *)
(* what the boot-time parse left, and an NMI whose reason is in such a slot *)
(* is still ignored, or still panics.                                       *)
C19_BootListSurvives ==
    /\ PanicParsed =>
          \A k \in Untouched(events_panic, events_panic_list) :
              events_panic_list[k] = BootList(cmdline.panic)[k]
    /\ IgnoreParsed =>
          \A k \in Untouched(events_ignore, events_ignore_list) :
              events_ignore_list[k] = BootList(cmdline.ignore)[k]
    /\ Handled =>
          /\ (\E k \in Untouched(events_ignore, events_ignore_list) :
                  BootList(cmdline.ignore)[k] = nmi.reason)
              => nmi.ret = "NMI_HANDLED"
          /\ (/\ \E k \in Untouched(events_panic, events_panic_list) :
                      BootList(cmdline.panic)[k] = nmi.reason
               /\ nmi.reason \notin ListCodes(events_ignore_list))
              => nmi.ret = "PANIC"

\* nmimgr.events_panic=5,6,7 at boot, events_panic=99 at init: reason 6 panics
C19_Witness ==
    /\ Handled
    /\ cmdline.panic = Str(S_567)
    /\ events_panic = Str(S_99)
    /\ events_panic_list[1] = 99
    /\ nmi.reason = 6
    /\ nmi.ret = "PANIC"

====
